---- MODULE Spec2Model ----
(***************************************************************************)
(* Matchmaking and session relay of the anonymous chat servers.            *)
(*                                                                         *)
(* Two server programs live in the repository: the tag-based server        *)
(* (src/unnamed/part_000: state.waiting / state.peers / state.online /     *)
(* state.chatting) and the queue-based server (src/server.js:              *)
(* waitingQueue / activePairs / msgCount).  Both are Socket.IO servers on  *)
(* a single-threaded event loop, so every event handler runs to completion *)
(* before the next one starts: one action per handler.  A deployment runs  *)
(* one of the two programs: `program` says which, from the start on, and   *)
(* the state of the other program stays as constructed.                    *)
(*                                                                         *)
(* Strings are tuples of one-character strings, so that trim() is          *)
(* computed; a JavaScript value is a record [t |-> type, v |-> tuple].     *)
(* The random peerId carried by 'matched' is cosmetic and left out of the  *)
(* emitted record.                                                         *)
(***************************************************************************)
EXTENDS Integers, Sequences, FiniteSets, TLC

\* ------------------------------------------------------------------ bounds
\* The socket ids that may connect.
NSockets == 3
\* Under Spec a sender's message count stays within MaxMsgs.
MaxMsgs == 1
\* Under SpecLimit and SpecRate the first RateSockets sockets connect and the
\* first RateSenders of them send messages; under SpecRate the clock advances
\* MaxTicks times.
RateSockets == 2
RateSenders == 1
MaxTicks == 2
\* Under SpecStale the pool that is drawn holds up to MaxPool entries.
MaxPool == 2

\* --------------------------------------------------------- program constants
MAX_TAGS == 10
MAX_MSG_LEN == 500
MAX_MSGS_MIN == 60
WINDOW_MS == 60000

Sockets == 1..NSockets
\* io.emit(...) reaches every connected socket: one record addressed to Everyone.
Everyone == 0

\* ------------------------------------------------------------ JavaScript values
JsUndefined == [t |-> "undefined", v |-> <<>>]
JsNull == [t |-> "null", v |-> <<>>]
JsStr(chars) == [t |-> "string", v |-> chars]
JsNum(digits) == [t |-> "number", v |-> digits]
JsArr(items) == [t |-> "array", v |-> items]

\* String.prototype.trim
RECURSIVE TrimLeft(_)
TrimLeft(s) ==
    IF s # <<>> /\ Head(s) = " " THEN TrimLeft(Tail(s)) ELSE s

RECURSIVE TrimRight(_)
TrimRight(s) ==
    IF s # <<>> /\ s[Len(s)] = " " THEN TrimRight(SubSeq(s, 1, Len(s) - 1)) ELSE s

Trim(s) == TrimRight(TrimLeft(s))

\* Array.prototype.slice(0, n) / String.prototype.slice(0, n)
Slice(s, n) == SubSeq(s, 1, IF Len(s) < n THEN Len(s) ELSE n)

\* String(x || ''): a falsy x (undefined, null, '') gives '', a string itself,
\* a number its digits.
StringOrEmpty(x) ==
    IF x.t \in {"undefined", "null"} THEN <<>> ELSE x.v

RECURSIVE FilterNonEmpty(_)
FilterNonEmpty(s) ==
    IF s = <<>> THEN <<>>
    ELSE IF Head(s) = <<>> THEN FilterNonEmpty(Tail(s))
         ELSE <<Head(s)>> \o FilterNonEmpty(Tail(s))

normalizeTags(tags) ==
    IF tags.t # "array" THEN <<>>
    ELSE Slice(FilterNonEmpty([i \in 1..Len(tags.v) |-> Trim(StringOrEmpty(tags.v[i]))]),
               MAX_TAGS)

Range(s) == {s[i] : i \in 1..Len(s)}

haveCommonTag(aTags, bTags) ==
    IF Len(aTags) = 0 \/ Len(bTags) = 0 THEN FALSE
    ELSE \E i \in 1..Len(bTags) : bTags[i] \in Range(aTags)

\* ------------------------------------------------------------------- JS Map
\* A Map is a function whose domain is the set of keys present.
EmptyMap == [k \in {} |-> 0]
MapHas(m, k) == k \in DOMAIN m
MapSet(m, k, val) == [x \in (DOMAIN m) \cup {k} |-> IF x = k THEN val ELSE m[x]]
MapDelete(m, k) == [x \in (DOMAIN m) \ {k} |-> m[x]]

Max0(n) == IF n < 0 THEN 0 ELSE n

\* An emitted event: who receives it, its name, its payload.
Emission(to, ev, arg) == [to |-> to, ev |-> ev, arg |-> arg]

VARIABLES
    program,        \* the server program that runs: "part_000" or "server.js"
    sockets,        \* io.sockets.sockets: the ids of the live connections
    now,            \* Date.now()
    last,           \* the event handled by the latest step
    \* src/unnamed/part_000
    online,         \* state.online
    chatting,       \* state.chatting
    waiting,        \* state.waiting, in insertion order: <<[id, tags, at], ...>>
    peers,          \* state.peers
    outT,           \* what the latest handler emitted, in order (part_000)
    poolBefore,     \* history: state.waiting as the latest handler found it
    \* src/server.js
    waitingQueue,   \* waitingQueue
    activePairs,    \* activePairs
    msgCount,       \* msgCount
    outS,           \* what the latest handler emitted, in order (server.js)
    accepted        \* history: per sender, <<time, n>> of messages checkMsgRate let pass

varsT == <<online, chatting, waiting, peers, outT, poolBefore>>
varsS == <<waitingQueue, activePairs, msgCount, outS, accepted>>
vars == <<program, sockets, now, last, varsT, varsS>>

\* =================================================== src/unnamed/part_000
\* The state object of part_000 as a handler sees and changes it, with the
\* events emitted so far by the running handler.
T_state ==
    [online |-> online, chatting |-> chatting, waiting |-> waiting,
     peers |-> peers, out |-> <<>>]

T_emit(st, to, ev, arg) == [st EXCEPT !.out = Append(@, Emission(to, ev, arg))]

T_broadcastStats(st) ==
    T_emit(st, Everyone, "stats:update", <<st.online, st.chatting>>)

T_isChatting(st, socketId) == MapHas(st.peers, socketId)

\* state.waiting is a Map: has / delete / set keep the insertion order.
WaitingHas(w, id) == \E i \in 1..Len(w) : w[i].id = id
WaitingDelete(w, id) == SelectSeq(w, LAMBDA e : e.id # id)
WaitingSet(w, id, tags, at) ==
    IF WaitingHas(w, id)
    THEN [i \in 1..Len(w) |->
             IF w[i].id = id THEN [id |-> id, tags |-> tags, at |-> at] ELSE w[i]]
    ELSE Append(w, [id |-> id, tags |-> tags, at |-> at])
WaitingIds(w) == {w[i].id : i \in 1..Len(w)}

\* endChat with a fault: the partner's entry of state.peers is not deleted and
\* the partner is not told.
T_endChatKeepsPartner(st, live, socketId, notifyPartner) ==
    IF MapHas(st.peers, socketId)
    THEN T_broadcastStats(
             [st EXCEPT !.peers = MapDelete(@, socketId),
                        !.chatting = Max0(@ - 2)])
    ELSE T_broadcastStats(st)

\* endChat with a fault: state.chatting is decremented also when socketId
\* has no partner.
T_endChatAlwaysCounts(st, live, socketId, notifyPartner) ==
    IF MapHas(st.peers, socketId)
    THEN LET partnerId == st.peers[socketId]
             s1 == [st EXCEPT !.peers = MapDelete(MapDelete(@, socketId), partnerId),
                              !.chatting = Max0(@ - 2)]
             s2 == IF notifyPartner /\ partnerId \in live
                   THEN T_emit(s1, partnerId, "partner:left", <<>>)
                   ELSE s1
         IN T_broadcastStats(s2)
    ELSE T_broadcastStats([st EXCEPT !.chatting = Max0(@ - 2)])

T_endChat(st, live, socketId, notifyPartner) ==
    IF MapHas(st.peers, socketId)
    THEN LET partnerId == st.peers[socketId]
             s1 == [st EXCEPT !.peers = MapDelete(MapDelete(@, socketId), partnerId),
                              !.chatting = Max0(@ - 2)]
             s2 == IF notifyPartner /\ partnerId \in live
                   THEN T_emit(s1, partnerId, "partner:left", <<>>)
                   ELSE s1
         IN T_broadcastStats(s2)
    ELSE T_broadcastStats(st)

T_removeFromQueue(st, socketId) ==
    IF WaitingHas(st.waiting, socketId)
    THEN [st EXCEPT !.waiting = WaitingDelete(@, socketId)]
    ELSE st

\* ok with a fault: a side without tags matches nobody.
T_okOnlyCommon(tags, otherTags) == haveCommonTag(tags, otherTags)

\* ok with a fault: a candidate without tags matches only a requester without
\* tags.
T_okIgnoresUntaggedCandidate(tags, otherTags) ==
    \/ Len(tags) = 0
    \/ haveCommonTag(tags, otherTags)

\* The test `ok` of the scan.
T_ok(tags, otherTags) ==
    \/ (Len(tags) = 0 /\ Len(otherTags) = 0)
    \/ Len(tags) = 0
    \/ Len(otherTags) = 0
    \/ haveCommonTag(tags, otherTags)

MinOf(S) == CHOOSE x \in S : \A y \in S : x <= y
MaxOf(S) == CHOOSE x \in S : \A y \in S : x >= y

T_candidates(st, socketId, tags) ==
    {i \in 1..Len(st.waiting) :
        /\ st.waiting[i].id # socketId
        /\ ~T_isChatting(st, st.waiting[i].id)
        /\ T_ok(tags, st.waiting[i].tags)}

\* The scan with a fault: the last entry that passes the tests wins.
T_chosenLast(st, socketId, tags) ==
    IF T_candidates(st, socketId, tags) = {} THEN 0
    ELSE MaxOf(T_candidates(st, socketId, tags))

\* The for loop of tryMatch: the index in state.waiting of the first entry
\* that passes the tests, 0 when the loop ends with chosenId = null.
T_chosen(st, socketId, tags) ==
    IF T_candidates(st, socketId, tags) = {} THEN 0
    ELSE MinOf(T_candidates(st, socketId, tags))

\* The pairing with a fault: the candidate stays in state.waiting.
T_pairKeepsCandidateWaiting(st, socketId, chosenId) ==
    T_broadcastStats(
        [st EXCEPT !.waiting = WaitingDelete(@, socketId),
                   !.peers = MapSet(MapSet(@, socketId, chosenId), chosenId, socketId),
                   !.chatting = @ + 2,
                   !.out = @ \o <<Emission(socketId, "matched", <<>>),
                                  Emission(chosenId, "matched", <<>>)>>])

\* The pairing with a fault: only the requester's entry of state.peers is set.
T_pairOneSided(st, socketId, chosenId) ==
    T_broadcastStats(
        [st EXCEPT !.waiting = WaitingDelete(WaitingDelete(@, chosenId), socketId),
                   !.peers = MapSet(@, socketId, chosenId),
                   !.chatting = @ + 2,
                   !.out = @ \o <<Emission(socketId, "matched", <<>>),
                                  Emission(chosenId, "matched", <<>>)>>])

\* The pairing with a fault: 'matched' is emitted to the requester only.
T_pairTellsRequesterOnly(st, socketId, chosenId) ==
    T_broadcastStats(
        [st EXCEPT !.waiting = WaitingDelete(WaitingDelete(@, chosenId), socketId),
                   !.peers = MapSet(MapSet(@, socketId, chosenId), chosenId, socketId),
                   !.chatting = @ + 2,
                   !.out = @ \o <<Emission(socketId, "matched", <<>>)>>])

\* The tail of tryMatch once a live candidate is chosen.
T_pair(st, socketId, chosenId) ==
    T_broadcastStats(
        [st EXCEPT !.waiting = WaitingDelete(WaitingDelete(@, chosenId), socketId),
                   !.peers = MapSet(MapSet(@, socketId, chosenId), chosenId, socketId),
                   !.chatting = @ + 2,
                   !.out = @ \o <<Emission(socketId, "matched", <<>>),
                                  Emission(chosenId, "matched", <<>>)>>])

\* tryMatch with a fault: a chosen candidate whose connection is gone is
\* dropped and the requester is made to wait, without a second scan.
T_tryMatchNoRetry(st, live, socketId, tags) ==
    IF T_isChatting(st, socketId) THEN st
    ELSE LET chosen == T_chosen(st, socketId, tags)
             wait(s0) ==
                 T_broadcastStats(
                     T_emit([s0 EXCEPT !.waiting = WaitingSet(@, socketId, tags, now)],
                            socketId, "waiting", <<>>))
         IN IF chosen = 0 THEN wait(st)
            ELSE LET chosenId == st.waiting[chosen].id IN
                 IF chosenId \notin live
                 THEN wait([st EXCEPT !.waiting = WaitingDelete(@, chosenId)])
                 ELSE T_pair(st, socketId, chosenId)

RECURSIVE T_tryMatch(_, _, _, _)
T_tryMatch(st, live, socketId, tags) ==
    IF T_isChatting(st, socketId) THEN st
    ELSE LET chosen == T_chosen(st, socketId, tags) IN
         IF chosen = 0
         THEN T_broadcastStats(
                  T_emit([st EXCEPT !.waiting = WaitingSet(@, socketId, tags, now)],
                         socketId, "waiting", <<>>))
         ELSE LET chosenId == st.waiting[chosen].id IN
              IF chosenId \notin live
              THEN T_tryMatch([st EXCEPT !.waiting = WaitingDelete(@, chosenId)],
                              live, socketId, tags)
              ELSE T_pair(st, socketId, chosenId)

\* --- the handlers of part_000
T_onConnection(st, socketId) ==
    T_emit(T_broadcastStats([st EXCEPT !.online = @ + 1]),
           socketId, "stats:update", <<st.online + 1, st.chatting>>)

\* find:partner with a fault: the requester is not taken out of state.waiting
\* before tryMatch.
T_onFindPartnerKeepsPlace(st, live, socketId, payloadTags) ==
    LET tags == normalizeTags(payloadTags)
        s1 == IF T_isChatting(st, socketId) THEN T_endChat(st, live, socketId, TRUE) ELSE st
    IN T_tryMatch(s1, live, socketId, tags)

T_onFindPartner(st, live, socketId, payloadTags) ==
    LET tags == normalizeTags(payloadTags)
        s1 == IF T_isChatting(st, socketId) THEN T_endChat(st, live, socketId, TRUE) ELSE st
        s2 == T_removeFromQueue(s1, socketId)
    IN T_tryMatch(s2, live, socketId, tags)

\* message:send with a fault: without a partner nothing is emitted.
T_onMessageSendSilent(st, live, socketId, payloadText) ==
    LET text == Trim(StringOrEmpty(payloadText)) IN
    IF text = <<>> \/ ~MapHas(st.peers, socketId) \/ st.peers[socketId] \notin live
    THEN st
    ELSE T_emit(st, st.peers[socketId], "message:receive", <<text, now>>)

T_onMessageSend(st, live, socketId, payloadText) ==
    LET text == Trim(StringOrEmpty(payloadText)) IN
    IF text = <<>> THEN st
    ELSE IF ~MapHas(st.peers, socketId)
         THEN T_emit(st, socketId, "error:noparter", <<>>)
         ELSE IF st.peers[socketId] \notin live THEN st
              ELSE T_emit(st, st.peers[socketId], "message:receive", <<text, now>>)

\* typing with a fault: the event is emitted to the partner without the test
\* that its connection is live.
T_onTypingUnchecked(st, live, socketId, ev) ==
    IF ~MapHas(st.peers, socketId) THEN st
    ELSE T_emit(st, st.peers[socketId], ev, <<>>)

T_onTyping(st, live, socketId, ev) ==
    IF ~MapHas(st.peers, socketId) THEN st
    ELSE IF st.peers[socketId] \notin live THEN st
         ELSE T_emit(st, st.peers[socketId], ev, <<>>)

\* chat:end with a fault: the partner that is left is put back into
\* state.waiting.
T_onChatEndRequeuesPartner(st, live, socketId) ==
    LET s1 == T_removeFromQueue(T_endChat(st, live, socketId, TRUE), socketId) IN
    IF MapHas(st.peers, socketId)
    THEN [s1 EXCEPT !.waiting = WaitingSet(@, st.peers[socketId], <<>>, now)]
    ELSE s1

T_onChatEnd(st, live, socketId) ==
    T_removeFromQueue(T_endChat(st, live, socketId, TRUE), socketId)

\* disconnect with a fault: state.online is not decremented.
T_onDisconnectKeepsOnline(st, live, socketId) ==
    T_broadcastStats(T_endChat(T_removeFromQueue(st, socketId), live, socketId, TRUE))

T_onDisconnect(st, live, socketId) ==
    LET s1 == T_removeFromQueue(st, socketId)
        s2 == T_endChat(s1, live, socketId, TRUE)
    IN T_broadcastStats([s2 EXCEPT !.online = Max0(@ - 1)])

\* The handler's result becomes the state of part_000.
T_commit(st) ==
    /\ online' = st.online
    /\ chatting' = st.chatting
    /\ waiting' = st.waiting
    /\ peers' = st.peers
    /\ outT' = st.out
    /\ poolBefore' = waiting

\* ========================================================= src/server.js
S_state ==
    [waitingQueue |-> waitingQueue, activePairs |-> activePairs,
     msgCount |-> msgCount, out |-> <<>>]

S_emit(st, to, ev, arg) == [st EXCEPT !.out = Append(@, Emission(to, ev, arg))]

\* `if (sock) sock.emit(...)` after io.sockets.sockets.get(id)
S_emitIfLive(st, live, to, ev, arg) ==
    IF to \in live THEN S_emit(st, to, ev, arg) ELSE st

\* Array.prototype.indexOf / includes / splice(idx, 1), 1-based, 0 for -1
IndexOf(q, id) ==
    IF \E i \in 1..Len(q) : q[i] = id
    THEN MinOf({i \in 1..Len(q) : q[i] = id})
    ELSE 0
Includes(q, id) == IndexOf(q, id) # 0
Splice1(q, idx) == SubSeq(q, 1, idx - 1) \o SubSeq(q, idx + 1, Len(q))

\* waitingQueue.findIndex((id) => id !== socketId)
S_findIndex(q, socketId) ==
    IF \E i \in 1..Len(q) : q[i] # socketId
    THEN MinOf({i \in 1..Len(q) : q[i] # socketId})
    ELSE 0

\* The entry of msgCount that checkMsgRate stores for a message sent now.
S_rateData(mc, socketId) ==
    LET data == IF MapHas(mc, socketId) THEN mc[socketId]
                ELSE [count |-> 0, resetAt |-> now + WINDOW_MS]
        fresh == IF now > data.resetAt
                 THEN [count |-> 0, resetAt |-> now + WINDOW_MS]
                 ELSE data
    IN [fresh EXCEPT !.count = @ + 1]

\* checkMsgRate: the return value, and the state it leaves.
S_checkMsgRateValue(st, socketId) ==
    S_rateData(st.msgCount, socketId).count <= MAX_MSGS_MIN

S_checkMsgRate(st, socketId) ==
    [st EXCEPT !.msgCount = MapSet(@, socketId, S_rateData(st.msgCount, socketId))]

\* cleanupUser with a fault: the partner's entry of activePairs is not deleted.
S_cleanupUserKeepsPartner(st, live, socketId) ==
    LET idx == IndexOf(st.waitingQueue, socketId)
        s1 == IF idx # 0 THEN [st EXCEPT !.waitingQueue = Splice1(@, idx)] ELSE st
        s2 == IF MapHas(s1.activePairs, socketId)
              THEN S_emitIfLive(s1, live, s1.activePairs[socketId], "partner:left", <<>>)
              ELSE s1
    IN [s2 EXCEPT !.activePairs = MapDelete(@, socketId),
                  !.msgCount = MapDelete(@, socketId)]

S_cleanupUser(st, live, socketId) ==
    LET idx == IndexOf(st.waitingQueue, socketId)
        s1 == IF idx # 0 THEN [st EXCEPT !.waitingQueue = Splice1(@, idx)] ELSE st
        s2 == IF MapHas(s1.activePairs, socketId)
              THEN LET partnerId == s1.activePairs[socketId] IN
                   [S_emitIfLive(s1, live, partnerId, "partner:left", <<>>)
                       EXCEPT !.activePairs = MapDelete(@, partnerId)]
              ELSE s1
    IN [s2 EXCEPT !.activePairs = MapDelete(@, socketId),
                  !.msgCount = MapDelete(@, socketId)]

\* tryMatch returns false and changes nothing when findIndex gives -1.
S_tryMatchFound(st, socketId) == S_findIndex(st.waitingQueue, socketId) # 0

S_tryMatch(st, live, socketId) ==
    LET idx == S_findIndex(st.waitingQueue, socketId) IN
    IF idx = 0 THEN st
    ELSE LET partnerId == st.waitingQueue[idx]
             q1 == Splice1(st.waitingQueue, idx)
             myIdx == IndexOf(q1, socketId)
             q2 == IF myIdx # 0 THEN Splice1(q1, myIdx) ELSE q1
             s1 == [st EXCEPT !.waitingQueue = q2,
                              !.activePairs = MapSet(MapSet(@, socketId, partnerId),
                                                     partnerId, socketId)]
             s2 == S_emitIfLive(s1, live, socketId, "matched", <<>>)
         IN S_emitIfLive(s2, live, partnerId, "matched", <<>>)

\* activePairs.size / 2: the size is even in every reachable state.
S_getStats(st, live) ==
    [online |-> Cardinality(live), waiting |-> Len(st.waitingQueue),
     chatting |-> Cardinality(DOMAIN st.activePairs) \div 2]

\* --- the handlers of server.js
\* find:partner with a fault: the old partner keeps its entry of activePairs.
S_onFindPartnerKeepsOldPartner(st, live, socketId) ==
    LET s1 == IF MapHas(st.activePairs, socketId)
              THEN [S_emitIfLive(st, live, st.activePairs[socketId], "partner:left", <<>>)
                       EXCEPT !.activePairs = MapDelete(@, socketId)]
              ELSE st
        s2 == IF ~Includes(s1.waitingQueue, socketId)
              THEN [s1 EXCEPT !.waitingQueue = Append(@, socketId)]
              ELSE s1
    IN IF S_tryMatchFound(s2, socketId)
       THEN S_tryMatch(s2, live, socketId)
       ELSE S_emit(s2, socketId, "waiting", <<>>)

S_onFindPartner(st, live, socketId) ==
    LET s1 == IF MapHas(st.activePairs, socketId)
              THEN LET oldPartner == st.activePairs[socketId] IN
                   [S_emitIfLive(st, live, oldPartner, "partner:left", <<>>)
                       EXCEPT !.activePairs = MapDelete(MapDelete(@, oldPartner), socketId)]
              ELSE st
        s2 == IF ~Includes(s1.waitingQueue, socketId)
              THEN [s1 EXCEPT !.waitingQueue = Append(@, socketId)]
              ELSE s1
    IN IF S_tryMatchFound(s2, socketId)
       THEN S_tryMatch(s2, live, socketId)
       ELSE S_emit(s2, socketId, "waiting", <<>>)

S_onMessageSend(st, live, socketId, text) ==
    IF text.t # "string" THEN st
    ELSE LET clean == Slice(Trim(text.v), MAX_MSG_LEN) IN
         IF clean = <<>> THEN st
         ELSE LET s1 == S_checkMsgRate(st, socketId) IN
              IF ~S_checkMsgRateValue(st, socketId)
              THEN S_emit(s1, socketId, "error:ratelimit", <<>>)
              ELSE IF ~MapHas(s1.activePairs, socketId)
                   THEN S_emit(s1, socketId, "error:nopartner", <<>>)
                   ELSE S_emitIfLive(s1, live, s1.activePairs[socketId],
                                     "message:receive", <<clean, now>>)

S_onTyping(st, live, socketId, ev) ==
    IF ~MapHas(st.activePairs, socketId) THEN st
    ELSE S_emitIfLive(st, live, st.activePairs[socketId], ev, <<>>)

\* chat:end with a fault: the partner's entry of activePairs is not deleted.
S_onChatEndKeepsPartner(st, live, socketId) ==
    LET s1 == IF MapHas(st.activePairs, socketId)
              THEN S_emitIfLive(st, live, st.activePairs[socketId], "partner:left", <<>>)
              ELSE st
    IN [s1 EXCEPT !.activePairs = MapDelete(@, socketId)]

S_onChatEnd(st, live, socketId) ==
    LET s1 == IF MapHas(st.activePairs, socketId)
              THEN LET partnerId == st.activePairs[socketId] IN
                   [S_emitIfLive(st, live, partnerId, "partner:left", <<>>)
                       EXCEPT !.activePairs = MapDelete(@, partnerId)]
              ELSE st
    IN [s1 EXCEPT !.activePairs = MapDelete(@, socketId)]

S_onDisconnect(st, live, socketId) == S_cleanupUser(st, live, socketId)

S_commit(st) ==
    /\ waitingQueue' = st.waitingQueue
    /\ activePairs' = st.activePairs
    /\ msgCount' = st.msgCount
    /\ outS' = st.out

\* ================================================================ inputs
\* payload.tags of find:partner
TagPayloads ==
    { JsUndefined,
      JsArr(<<JsStr(<<" ", "a">>)>>),
      JsArr(<<JsStr(<<"b">>), JsNull, JsStr(<<"c", " ">>)>>),
      JsArr(<<JsStr(<<"a">>), JsStr(<<"b">>), JsStr(<<" ">>), JsStr(<<"c">>)>>) }

\* payload.text of message:send
TextPayloads ==
    { JsUndefined, JsStr(<<" ">>), JsStr(<<" ", "h", " ">>), JsNum(<<"5">>) }

TickMs == WINDOW_MS \div 2 + 1

\* ================================================================ history
\* accepted[s]: <<time, n>> pairs, oldest first: n messages of s passed
\* checkMsgRate at that time.
AddAccepted(h, t) ==
    IF h # <<>> /\ h[Len(h)][1] = t
    THEN [h EXCEPT ![Len(h)] = <<t, h[Len(h)][2] + 1>>]
    ELSE Append(h, <<t, 1>>)

RECURSIVE SumFrom(_, _)
SumFrom(h, t) ==
    IF h = <<>> THEN 0
    ELSE (IF Head(h)[1] > t THEN Head(h)[2] ELSE 0) + SumFrom(Tail(h), t)

\* The number of messages of the history accepted after time t.
AcceptedSince(h, t) == SumFrom(h, t)

\* The history without what is a window or more before time t.
Recent(h, t) == SelectSeq(h, LAMBDA e : e[1] > t - WINDOW_MS)

Event(ev, id, arg) == [ev |-> ev, id |-> id, arg |-> arg]

\* ================================================================ actions
Programs == {"part_000", "server.js"}

Init ==
    /\ program \in Programs
    /\ sockets = {}
    /\ now = 0
    /\ last = Event("start", 0, JsUndefined)
    /\ online = 0
    /\ chatting = 0
    /\ waiting = <<>>
    /\ peers = EmptyMap
    /\ outT = <<>>
    /\ poolBefore = <<>>
    /\ waitingQueue = <<>>
    /\ activePairs = EmptyMap
    /\ msgCount = EmptyMap
    /\ outS = <<>>
    /\ accepted = [s \in Sockets |-> <<>>]

\* io.on('connection'): a client connects and gets the socket id s.
Connection(s) ==
    /\ s \notin sockets
    /\ sockets' = sockets \cup {s}
    /\ last' = Event("connection", s, JsUndefined)
    /\ IF program = "part_000"
       THEN T_commit(T_onConnection(T_state, s)) /\ UNCHANGED varsS
       ELSE S_commit(S_state) /\ UNCHANGED <<varsT, accepted>>
    /\ UNCHANGED <<program, now>>

FindPartner(s, payloadTags) ==
    /\ s \in sockets
    /\ last' = Event("find:partner", s, payloadTags)
    /\ IF program = "part_000"
       THEN T_commit(T_onFindPartner(T_state, sockets, s, payloadTags))
            /\ UNCHANGED varsS
       ELSE S_commit(S_onFindPartner(S_state, sockets, s))
            /\ UNCHANGED <<varsT, accepted>>
    /\ UNCHANGED <<program, sockets, now>>

\* cap bounds the count of msgCount that a sender may reach.
MessageSend(s, payloadText, cap) ==
    /\ s \in sockets
    /\ last' = Event("message:send", s, payloadText)
    /\ IF program = "part_000"
       THEN T_commit(T_onMessageSend(T_state, sockets, s, payloadText))
            /\ UNCHANGED varsS
       ELSE /\ S_rateData(msgCount, s).count <= cap
            /\ S_commit(S_onMessageSend(S_state, sockets, s, payloadText))
            /\ accepted' =
                  IF /\ payloadText.t = "string"
                     /\ Trim(payloadText.v) # <<>>
                     /\ S_checkMsgRateValue(S_state, s)
                  THEN [accepted EXCEPT ![s] = AddAccepted(@, now)]
                  ELSE accepted
            /\ UNCHANGED varsT
    /\ UNCHANGED <<program, sockets, now>>

Typing(s, ev) ==
    /\ s \in sockets
    /\ last' = Event(ev, s, JsUndefined)
    /\ IF program = "part_000"
       THEN T_commit(T_onTyping(T_state, sockets, s, ev)) /\ UNCHANGED varsS
       ELSE S_commit(S_onTyping(S_state, sockets, s, ev))
            /\ UNCHANGED <<varsT, accepted>>
    /\ UNCHANGED <<program, sockets, now>>

ChatEnd(s) ==
    /\ s \in sockets
    /\ last' = Event("chat:end", s, JsUndefined)
    /\ IF program = "part_000"
       THEN T_commit(T_onChatEnd(T_state, sockets, s)) /\ UNCHANGED varsS
       ELSE S_commit(S_onChatEnd(S_state, sockets, s))
            /\ UNCHANGED <<varsT, accepted>>
    /\ UNCHANGED <<program, sockets, now>>

\* The connection of s closes: Socket.IO takes the socket out of
\* io.sockets.sockets and then runs the 'disconnect' handler.
Disconnect(s) ==
    /\ s \in sockets
    /\ sockets' = sockets \ {s}
    /\ last' = Event("disconnect", s, JsUndefined)
    /\ IF program = "part_000"
       THEN T_commit(T_onDisconnect(T_state, sockets \ {s}, s))
            /\ UNCHANGED varsS
       ELSE /\ S_commit(S_onDisconnect(S_state, sockets \ {s}, s))
            /\ accepted' = [accepted EXCEPT ![s] = <<>>]
            /\ UNCHANGED varsT
    /\ UNCHANGED <<program, now>>

\* The 'disconnect' handler of s runs once more, right after its first run: s
\* is no longer in io.sockets.sockets.
DisconnectAgain(s) ==
    /\ s \notin sockets
    /\ last.ev = "disconnect"
    /\ last.id = s
    /\ last' = Event("disconnect again", s, JsUndefined)
    /\ IF program = "part_000"
       THEN T_commit(T_onDisconnect(T_state, sockets, s)) /\ UNCHANGED varsS
       ELSE S_commit(S_onDisconnect(S_state, sockets, s))
            /\ UNCHANGED <<varsT, accepted>>
    /\ UNCHANGED <<program, sockets, now>>

\* setInterval(() => io.emit('stats:update', getStats()), 5000) of server.js
StatsInterval ==
    /\ program = "server.js"
    /\ last' = Event("interval", 0, JsUndefined)
    /\ outS' = <<Emission(Everyone, "stats:update",
                          <<S_getStats(S_state, sockets).online,
                            S_getStats(S_state, sockets).waiting,
                            S_getStats(S_state, sockets).chatting>>)>>
    /\ UNCHANGED <<program, sockets, now, varsT,
                   waitingQueue, activePairs, msgCount, accepted>>

\* Time passes.
Tick ==
    /\ now < MaxTicks * TickMs
    /\ now' = now + TickMs
    /\ last' = Event("tick", 0, JsUndefined)
    /\ outT' = <<>>
    /\ outS' = <<>>
    /\ accepted' = [s \in Sockets |-> Recent(accepted[s], now + TickMs)]
    /\ UNCHANGED <<program, sockets, online, chatting, waiting, peers, poolBefore,
                   waitingQueue, activePairs, msgCount>>

Next ==
    \/ \E s \in Sockets : Connection(s)
    \/ \E s \in Sockets, p \in TagPayloads : FindPartner(s, p)
    \/ \E s \in Sockets, p \in TextPayloads : MessageSend(s, p, MaxMsgs)
    \/ \E s \in Sockets, ev \in {"typing:start", "typing:stop"} : Typing(s, ev)
    \/ \E s \in Sockets : ChatEnd(s)
    \/ \E s \in Sockets : Disconnect(s)
    \/ StatsInterval

Spec == Init /\ [][Next]_vars

\* Senders up to the limit of the message rate, the clock standing still: few
\* sockets, many messages.
NextLimit ==
    \/ \E s \in 1..RateSockets : Connection(s)
    \/ \E s \in 1..RateSockets : FindPartner(s, JsUndefined)
    \/ \E s \in 1..RateSenders, p \in TextPayloads :
          MessageSend(s, p, MAX_MSGS_MIN + 1)
    \/ \E s \in 1..RateSockets : ChatEnd(s)
    \/ \E s \in 1..RateSockets : Disconnect(s)

SpecLimit == Init /\ [][NextLimit]_vars

\* The same with the clock running.
NextRate ==
    \/ \E s \in 1..RateSockets : Connection(s)
    \/ \E s \in 1..RateSockets : FindPartner(s, JsUndefined)
    \/ \E s \in 1..RateSenders, p \in TextPayloads :
          MessageSend(s, p, MAX_MSGS_MIN + 1)
    \/ \E s \in 1..RateSockets : Disconnect(s)
    \/ Tick

SpecRate == Init /\ [][NextRate]_vars

\* tryMatch of part_000 as a function of the pool: the pools it is applied to
\* are drawn, and may hold entries of sockets whose connection is gone (the
\* case its test of io.sockets.sockets.get(chosenId) is written for).  The
\* first k sockets are live, the others are not.
PoolTags == {<<>>, << <<"a">> >>, << <<"b">>, <<"c">> >>}

Pools ==
    UNION {{w \in [1..n -> [id : Sockets, tags : PoolTags, at : {0}]] :
               \A i, j \in 1..n : i # j => w[i].id # w[j].id} : n \in 0..MaxPool}

InitStale ==
    /\ program = "part_000"
    /\ sockets \in {1..k : k \in 1..NSockets}
    /\ now = 0
    /\ last = Event("start", 0, JsUndefined)
    /\ online = Cardinality(sockets)
    /\ chatting = 0
    /\ waiting \in Pools
    /\ peers = EmptyMap
    /\ outT = <<>>
    /\ poolBefore = waiting
    /\ waitingQueue = <<>>
    /\ activePairs = EmptyMap
    /\ msgCount = EmptyMap
    /\ outS = <<>>
    /\ accepted = [s \in Sockets |-> <<>>]

NextStale == \E s \in Sockets, p \in TagPayloads : FindPartner(s, p)

SpecStale == InitStale /\ [][NextStale]_vars

\* The forwarding handlers as functions of the session map: the session map
\* they are applied to is drawn, and a partner recorded in it may be a socket
\* whose connection is gone (the case their tests of
\* io.sockets.sockets.get(partnerId) are written for).
Pairings ==
    UNION {{m \in [D -> D] : \A a \in D : m[a] # a /\ m[m[a]] = a} :
              D \in SUBSET (1..RateSockets)}

InitGone ==
    /\ program \in Programs
    /\ sockets \in SUBSET (1..RateSockets)
    /\ now = 0
    /\ last = Event("start", 0, JsUndefined)
    /\ online = Cardinality(sockets)
    /\ waiting = <<>>
    /\ \E m \in Pairings :
          /\ peers = IF program = "part_000" THEN m ELSE EmptyMap
          /\ activePairs = IF program = "server.js" THEN m ELSE EmptyMap
    /\ chatting = Cardinality(DOMAIN peers)
    /\ outT = <<>>
    /\ poolBefore = <<>>
    /\ waitingQueue = <<>>
    /\ msgCount = EmptyMap
    /\ outS = <<>>
    /\ accepted = [s \in Sockets |-> <<>>]

NextGone ==
    \/ \E s \in 1..RateSenders, p \in TextPayloads :
          MessageSend(s, p, MAX_MSGS_MIN + 1)
    \/ \E s \in 1..RateSockets, ev \in {"typing:start", "typing:stop"} :
          Typing(s, ev)

SpecGone == InitGone /\ [][NextGone]_vars

\* The handlers that change the pool and the sessions, and the 'disconnect'
\* handler run a second time for the same socket.
NextAgain ==
    \/ \E s \in Sockets : Connection(s)
    \/ \E s \in Sockets, p \in TagPayloads : FindPartner(s, p)
    \/ \E s \in Sockets : ChatEnd(s)
    \/ \E s \in Sockets : Disconnect(s)
    \/ \E s \in Sockets : DisconnectAgain(s)

SpecAgain == Init /\ [][NextAgain]_vars

\* ================================================================ claims
\* What the claims speak of, stated apart from the code's own tests.
Sessions(m) == {{a, m[a]} : a \in DOMAIN m}
Values(m) == {m[a] : a \in DOMAIN m}
SymmetricExclusive(m) ==
    /\ \A a \in DOMAIN m :
          /\ m[a] # a
          /\ m[a] \in DOMAIN m
          /\ m[m[a]] = a
    /\ \A a, b \in DOMAIN m : a # b => m[a] # m[b]
Emitted(out, ev) == {out[i].to : i \in {j \in 1..Len(out) : out[j].ev = ev}}
CountEmitted(out, ev) == Cardinality({j \in 1..Len(out) : out[j].ev = ev})
\* The eligibility rule of the pairing engine: (a) the requester has no tags,
\* (b) the candidate has no tags, (c) the tag sets intersect.
Compatible(a, b) == a = <<>> \/ b = <<>> \/ Range(a) \cap Range(b) # {}

\* C1: in every reachable state the session maps of both servers are symmetric
\* and exclusive: if A's partner is B then B's partner is A, nobody is its own
\* partner, and nobody is the partner of two participants.
C1_SessionsSymmetricExclusive ==
    SymmetricExclusive(peers) /\ SymmetricExclusive(activePairs)

\* A find:partner of server.js has just paired its requester while a third
\* participant is connected.
C1_Witness ==
    /\ last.ev = "find:partner"
    /\ last.id \in DOMAIN activePairs
    /\ Cardinality(sockets) = 3

\* C2: between handlers nobody is both in the waiting pool and in the session
\* map, in either server.
C2_PoolAndSessionsDisjoint ==
    /\ WaitingIds(waiting) \cap DOMAIN peers = {}
    /\ Range(waitingQueue) \cap DOMAIN activePairs = {}

\* A find:partner has just paired its requester with one of two waiting
\* participants; the other one still waits.
C2_Witness ==
    /\ last.ev = "find:partner"
    /\ last.id \in DOMAIN peers
    /\ waiting # <<>>

\* C3: in part_000 a find:partner of r that finds the pool holding exactly one other
\* participant o, with compatible tags, forms exactly one session, r with o,
\* and empties the pool; a find:partner that finds the pool empty forms none and
\* leaves r alone in the pool; and never do two requesters hold the same
\* candidate.  So two compatible participants who are the only seekers end in
\* exactly one session whichever of them is handled first.
C3_Step(r) ==
    LET tags == normalizeTags(last'.arg)
        \* the sessions the handler leaves alone: all but the one r was in
        kept == {ss \in Sessions(peers) : r \notin ss}
        pool == SelectSeq(waiting, LAMBDA e : e.id # r)
    IN /\ (Len(pool) = 1 /\ Compatible(tags, pool[1].tags))
            => /\ Sessions(peers') = kept \cup {{r, pool[1].id}}
               /\ peers'[r] = pool[1].id
               /\ peers'[pool[1].id] = r
               /\ waiting' = <<>>
               /\ Emitted(outT', "matched") = {r, pool[1].id}
               /\ CountEmitted(outT', "matched") = 2
       /\ Len(pool) = 0
            => /\ Sessions(peers') = kept
               /\ WaitingIds(waiting') = {r}

C3_TwoSeekersOneSession ==
    /\ [](\A a, b \in DOMAIN peers : a # b => peers[a] # peers[b])
    /\ [][\A r \in Sockets :
             (program = "part_000" /\ last'.ev = "find:partner" /\ last'.id = r)
             => C3_Step(r)]_vars

\* The second of two compatible seekers with tags has just been handled: one
\* session, of two, and an empty pool.
C3_Witness ==
    /\ last.ev = "find:partner"
    /\ normalizeTags(last.arg) # <<>>
    /\ last.id \in DOMAIN peers
    /\ Cardinality(DOMAIN peers) = 2
    /\ waiting = <<>>
    /\ Emitted(outT, "partner:left") = {}

\* C4: in part_000 find:partner pairs the requester with the earliest-inserted entry of the
\* pool, other than itself, that is eligible; with no eligible entry it pairs
\* it with nobody.
C4_Step(r) ==
    LET tags == normalizeTags(last'.arg)
        eligible == {i \in 1..Len(waiting) :
                        waiting[i].id # r /\ Compatible(tags, waiting[i].tags)}
    IN IF eligible = {}
       THEN r \notin DOMAIN peers'
       ELSE /\ r \in DOMAIN peers'
            /\ peers'[r] = waiting[MinOf(eligible)].id

C4_FirstEligibleWins ==
    [][\A r \in Sockets :
          (program = "part_000" /\ last'.ev = "find:partner" /\ last'.id = r)
          => C4_Step(r)]_vars

\* The requester has been paired although an entry that shares two tags with
\* it, more than its partner can, is still in the pool.
C4_Witness ==
    /\ last.ev = "find:partner"
    /\ last.id \in DOMAIN peers
    /\ \E i \in 1..Len(waiting) :
          Cardinality(Range(waiting[i].tags) \cap Range(normalizeTags(last.arg))) >= 2

\* C5: in part_000, between handlers state.online is the number of live connections, and
\* the last stats:update a handler emits reports that number.
C5_OnlineIsConnected ==
    program = "part_000" =>
    /\ online = Cardinality(sockets)
    /\ \A i \in 1..Len(outT) :
          (outT[i].ev = "stats:update"
              /\ \A j \in (i + 1)..Len(outT) : outT[j].ev # "stats:update")
          => outT[i].arg[1] = Cardinality(sockets)

\* A participant has just disconnected while others stay connected.
C5_Witness ==
    /\ last.ev = "disconnect"
    /\ online >= 2

\* C6: in part_000 state.chatting is the number of participants that have a partner; it is
\* even, not negative, and twice the number of sessions.
C6_ChattingIsPartnered ==
    program = "part_000" =>
    /\ chatting = Cardinality(DOMAIN peers)
    /\ chatting = 2 * Cardinality(Sessions(peers))
    /\ chatting % 2 = 0
    /\ chatting >= 0

\* A find:partner of a chatting participant has ended one session and formed
\* another.
C6_Witness ==
    /\ last.ev = "find:partner"
    /\ Emitted(outT, "partner:left") # {}
    /\ chatting = 2

\* C7: in either program a chat:end of A while A is paired with B leaves neither with a partner;
\* a message:receive goes only to the participant that is the sender's partner
\* when the message:send is handled; and a participant gets a partner only by
\* a find:partner of itself or of that partner.  So after the chat:end nothing
\* of A reaches B, nor of B reaches A, until a find:partner pairs them again.
C7_Step(m, m2, out2) ==
    /\ (last'.ev = "chat:end" /\ last'.id \in DOMAIN m)
          => (last'.id \notin DOMAIN m2 /\ m[last'.id] \notin DOMAIN m2)
    /\ \A t \in Emitted(out2, "message:receive") :
          /\ last'.ev = "message:send"
          /\ last'.id \in DOMAIN m
          /\ m[last'.id] = t
    /\ \A a \in DOMAIN m2 :
          (a \notin DOMAIN m \/ m[a] # m2[a])
          => (last'.ev = "find:partner" /\ last'.id \in {a, m2[a]})

C7_NoRelayAfterChatEnd ==
    [][IF program = "part_000"
       THEN C7_Step(peers, peers', outT')
       ELSE C7_Step(activePairs, activePairs', outS')]_vars

\* A chat:end has just ended a session of part_000.
C7_Witness ==
    /\ last.ev = "chat:end"
    /\ Emitted(outT, "partner:left") # {}
    /\ last.id \notin DOMAIN peers

\* A text of which trim() leaves nothing.
Blank(chars) == \A i \in 1..Len(chars) : chars[i] = " "

C9_SlidingWindow ==
    \A s \in Sockets : AcceptedSince(accepted[s], now - WINDOW_MS) <= MAX_MSGS_MIN

\* C10: a disconnected participant is nowhere in the shared state of either
\* server (pool, keys and values of the session map, message counts) and no
\* handler emits anything to it.
C10_DisconnectedIsGone ==
    \A s \in Sockets \ sockets :
        /\ s \notin WaitingIds(waiting)
        /\ s \notin DOMAIN peers
        /\ s \notin Values(peers)
        /\ s \notin Range(waitingQueue)
        /\ s \notin DOMAIN activePairs
        /\ s \notin Values(activePairs)
        /\ s \notin DOMAIN msgCount
        /\ \A i \in 1..Len(outT) : outT[i].to # s
        /\ \A i \in 1..Len(outS) : outS[i].to # s

\* A participant of part_000 has just disconnected in the middle of a chat;
\* its partner was told.
C10_Witness ==
    /\ last.ev = "disconnect"
    /\ Emitted(outT, "partner:left") # {}

\* C11 as claimed: a second run of the disconnect handling for the same
\* participant leaves the online count, the waiting pool, the session map and
\* the chatting count as the first run left them, and sends no partner:left.
C11_SecondDisconnectChangesNothing ==
    [][last'.ev = "disconnect again"
       => /\ online' = online
          /\ waiting' = waiting
          /\ peers' = peers
          /\ chatting' = chatting
          /\ waitingQueue' = waitingQueue
          /\ activePairs' = activePairs
          /\ Emitted(outT', "partner:left") = {}
          /\ Emitted(outS', "partner:left") = {}]_vars

\* C12 as claimed: in server.js the chatting value of getStats, as GET
\* /api/stats serves it in any state and as the interval broadcasts it, is the
\* number of chatting participants: twice the number of live sessions.
C12_ChattingCountsParticipants ==
    program = "server.js" =>
    /\ S_getStats(S_state, sockets).chatting = 2 * Cardinality(Sessions(activePairs))
    /\ last.ev = "interval"
          => /\ Len(outS) = 1
             /\ outS[1].ev = "stats:update"
             /\ outS[1].arg[3] = 2 * Cardinality(Sessions(activePairs))

\* C13: in part_000 a find:partner of r that found a pool (poolBefore) which
\* may hold entries of gone connections has ended (the recursion of tryMatch
\* is evaluated to its end for every drawn pool) with r paired with the
\* earliest eligible entry whose connection is live, or, when there is none,
\* with r waiting in the pool; the eligible gone entries ahead of the partner
\* (all of them when r waits) are dropped from the pool, and nobody's partner
\* is a gone connection.
C13_StaleCandidatesSkipped ==
    (program = "part_000" /\ last.ev = "find:partner") =>
    LET r == last.id
        tags == normalizeTags(last.arg)
        eligible == {i \in 1..Len(poolBefore) :
                        /\ poolBefore[i].id # r
                        /\ Compatible(tags, poolBefore[i].tags)}
        eligibleLive == {i \in eligible : poolBefore[i].id \in sockets}
        scanned == IF eligibleLive = {} THEN eligible
                   ELSE {i \in eligible : i < MinOf(eligibleLive)}
    IN /\ IF eligibleLive = {}
          THEN /\ r \notin DOMAIN peers
               /\ \E i \in 1..Len(waiting) :
                     waiting[i].id = r /\ waiting[i].tags = tags
               /\ Emitted(outT, "waiting") = {r}
               /\ Emitted(outT, "matched") = {}
          ELSE /\ r \in DOMAIN peers
               /\ peers[r] = poolBefore[MinOf(eligibleLive)].id
               /\ peers[peers[r]] = r
               /\ Emitted(outT, "matched") = {r, peers[r]}
               /\ Emitted(outT, "waiting") = {}
               /\ r \notin WaitingIds(waiting)
       /\ \A i \in scanned : poolBefore[i].id \notin WaitingIds(waiting)
       /\ \A a \in DOMAIN peers : peers[a] \in sockets

\* The requester has been paired with a live entry that stood behind an
\* eligible entry of a gone connection, and that entry is out of the pool.
C13_Witness ==
    /\ last.ev = "find:partner"
    /\ last.id \in DOMAIN peers
    /\ \E i, j \in 1..Len(poolBefore) :
          /\ i < j
          /\ poolBefore[i].id \notin sockets
          /\ Compatible(normalizeTags(last.arg), poolBefore[i].tags)
          /\ poolBefore[i].id \notin WaitingIds(waiting)
          /\ poolBefore[j].id = peers[last.id]

\* C14: in either program a find:partner of A while A is paired with B first
\* sends partner:left to B, before anything else the handler emits (matched or
\* waiting included); after the handler B has no partner and is not in the
\* pool, and A's partner, if it has one, is not B.
C14_Step(m, m2, pool2, out2) ==
    \A A \in Sockets :
        (last'.ev = "find:partner" /\ last'.id = A /\ A \in DOMAIN m)
        => LET B == m[A] IN
           /\ out2 # <<>>
           /\ out2[1] = Emission(B, "partner:left", <<>>)
           /\ CountEmitted(out2, "partner:left") = 1
           /\ B \notin DOMAIN m2
           /\ B \notin pool2
           /\ A \in DOMAIN m2 => m2[A] # B

C14_FindPartnerEndsOldSession ==
    [][IF program = "part_000"
       THEN C14_Step(peers, peers', WaitingIds(waiting'), outT')
       ELSE C14_Step(activePairs, activePairs', Range(waitingQueue'), outS')]_vars

\* In server.js a chatting participant asked for a new partner while a third
\* one was waiting: its old partner was told first, then the two were matched.
C14_Witness ==
    /\ last.ev = "find:partner"
    /\ Len(outS) = 3
    /\ outS[1].ev = "partner:left"
    /\ outS[1].to \notin DOMAIN activePairs
    /\ Emitted(outS, "matched") = {last.id, activePairs[last.id]}

\* C15: in either program a participant gets a partner only in a find:partner,
\* as its requester or as the pool entry that is paired with the requester; a
\* chat:end or a disconnect of a paired participant leaves it and its partner
\* with no partner and out of the pool; and the pool gains only the requester
\* of a find:partner.
C15_Step(m, m2, pool, pool2) ==
    /\ \A a \in DOMAIN m2 :
          (a \notin DOMAIN m \/ m[a] # m2[a])
          => /\ last'.ev = "find:partner"
             /\ a = last'.id \/ (m2[a] = last'.id /\ a \in pool)
    /\ (last'.ev \in {"chat:end", "disconnect"} /\ last'.id \in DOMAIN m)
          => /\ {last'.id, m[last'.id]} \cap DOMAIN m2 = {}
             /\ {last'.id, m[last'.id]} \cap pool2 = {}
    /\ \A a \in pool2 \ pool : last'.ev = "find:partner" /\ last'.id = a

C15_StatusTransitions ==
    [][IF program = "part_000"
       THEN C15_Step(peers, peers', WaitingIds(waiting), WaitingIds(waiting'))
       ELSE C15_Step(activePairs, activePairs',
                     Range(waitingQueue), Range(waitingQueue'))]_vars

\* In part_000 a chatting participant has disconnected while a third one
\* waits: the partner that was left is connected, idle and not in the pool.
C15_Witness ==
    /\ program = "part_000"
    /\ last.ev = "disconnect"
    /\ waiting # <<>>
    /\ Emitted(outT, "partner:left") # {}
    /\ \A t \in Emitted(outT, "partner:left") :
          t \in sockets /\ t \notin DOMAIN peers /\ t \notin WaitingIds(waiting)

\* What a forwarding handler may deliver: for message:send a message:receive,
\* for a typing event the same event, to the sender's recorded partner, whose
\* connection is live.
C16_OnlyToLivePartner(m, out) ==
    \A i \in 1..Len(out) :
        out[i].ev \in {"message:receive", "typing:start", "typing:stop"}
        => /\ out[i].ev = IF last.ev = "message:send" THEN "message:receive"
                          ELSE last.ev
           /\ last.id \in DOMAIN m
           /\ out[i].to = m[last.id]
           /\ out[i].to \in sockets

\* C16 as claimed: a forwarded event goes only to the sender's recorded
\* partner, and only if its connection is live; when the partner's connection
\* is gone the handler emits nothing at all, to the partner or to the sender.
C16_Claimed(m, out) ==
    last.ev \in {"message:send", "typing:start", "typing:stop"}
    => /\ C16_OnlyToLivePartner(m, out)
       /\ (last.id \in DOMAIN m /\ m[last.id] \notin sockets) => out = <<>>

C16_Amended(m, out) ==
    last.ev \in {"message:send", "typing:start", "typing:stop"}
    => /\ C16_OnlyToLivePartner(m, out)
       /\ (last.id \in DOMAIN m /\ m[last.id] \notin sockets)
             => out = IF /\ program = "server.js"
                         /\ last.ev = "message:send"
                         /\ last.arg.t = "string"
                         /\ ~Blank(last.arg.v)
                         /\ msgCount[last.id].count > MAX_MSGS_MIN
                      THEN <<Emission(last.id, "error:ratelimit", <<>>)>>
                      ELSE <<>>

C17_ChatEndWithoutSessionIsNoOp ==
    [][last'.ev = "chat:end"
       => IF program = "part_000"
          THEN last'.id \notin DOMAIN peers
               => /\ peers' = peers
                  /\ chatting' = chatting
                  /\ online' = online
                  /\ WaitingDelete(waiting', last'.id) = WaitingDelete(waiting, last'.id)
                  /\ Emitted(outT', "partner:left") = {}
          ELSE last'.id \notin DOMAIN activePairs
               => /\ activePairs' = activePairs
                  /\ waitingQueue' = waitingQueue
                  /\ msgCount' = msgCount
                  /\ outS' = <<>>]_vars

\* In part_000 a waiting participant has sent chat:end while two others chat:
\* it left the pool, the session of the others stands.
C17_Witness ==
    /\ program = "part_000"
    /\ last.ev = "chat:end"
    /\ WaitingHas(poolBefore, last.id)
    /\ waiting = <<>>
    /\ chatting = 2
    /\ Cardinality(DOMAIN peers) = 2
    /\ Emitted(outT, "partner:left") = {}

\* The two outcomes of a find:partner of r: 'waiting' once, to r, no 'matched',
\* and r in the pool and without partner; or 'matched' twice, once to r and
\* once to its partner, no 'waiting', and the two in a session and out of the
\* pool.
C18_Waits(r, m, pool, out) ==
    /\ CountEmitted(out, "waiting") = 1
    /\ Emitted(out, "waiting") = {r}
    /\ CountEmitted(out, "matched") = 0
    /\ r \in pool
    /\ r \notin DOMAIN m

C18_Matched(r, m, pool, out) ==
    /\ CountEmitted(out, "waiting") = 0
    /\ CountEmitted(out, "matched") = 2
    /\ r \in DOMAIN m
    /\ m[r] # r
    /\ m[r] \in DOMAIN m
    /\ m[m[r]] = r
    /\ Emitted(out, "matched") = {r, m[r]}
    /\ {r, m[r]} \cap pool = {}

\* C18: every find:partner ends in exactly one of the two outcomes; in
\* part_000 a requester that waits is in the pool once, with the tags of this
\* request.
C18_WaitingOrMatched ==
    last.ev = "find:partner" =>
    IF program = "part_000"
    THEN /\ ~(/\ C18_Waits(last.id, peers, WaitingIds(waiting), outT)
              /\ C18_Matched(last.id, peers, WaitingIds(waiting), outT))
         /\ \/ /\ C18_Waits(last.id, peers, WaitingIds(waiting), outT)
               /\ Len(SelectSeq(waiting, LAMBDA e : e.id = last.id)) = 1
               /\ \A i \in 1..Len(waiting) :
                     waiting[i].id = last.id
                     => waiting[i].tags = normalizeTags(last.arg)
            \/ C18_Matched(last.id, peers, WaitingIds(waiting), outT)
    ELSE /\ ~(/\ C18_Waits(last.id, activePairs, Range(waitingQueue), outS)
              /\ C18_Matched(last.id, activePairs, Range(waitingQueue), outS))
         /\ \/ C18_Waits(last.id, activePairs, Range(waitingQueue), outS)
            \/ C18_Matched(last.id, activePairs, Range(waitingQueue), outS)

\* In part_000 a requester with tags found one entry in the pool, not
\* eligible, and now waits behind it.
C18_Witness ==
    /\ program = "part_000"
    /\ last.ev = "find:partner"
    /\ Len(poolBefore) = 1
    /\ Len(waiting) = 2
    /\ waiting[2].id = last.id
    /\ waiting[2].tags # <<>>
    /\ Emitted(outT, "waiting") = {last.id}

\* C19: in part_000 no two entries of the pool are eligible for each other in
\* any reachable state; so an entry without tags is the only entry.
C19_NoMissedMatch ==
    program = "part_000" =>
    /\ \A i, j \in 1..Len(waiting) :
          i # j => ~Compatible(waiting[i].tags, waiting[j].tags)
    /\ \A i \in 1..Len(waiting) : waiting[i].tags = <<>> => Len(waiting) = 1

\* A requester whose tags fit both of two waiting entries, which do not fit
\* each other, has been paired with one of them; the other still waits.
C19_Witness ==
    /\ program = "part_000"
    /\ last.ev = "find:partner"
    /\ last.id \in DOMAIN peers
    /\ Len(poolBefore) = 2
    /\ \A i \in 1..2 : Compatible(normalizeTags(last.arg), poolBefore[i].tags)
    /\ Len(waiting) = 1

\* C20: in part_000 a find:partner of a participant that was in the pool and
\* finds no eligible candidate leaves the pool as it was without that
\* participant, followed by one new entry of it with the tags of this request:
\* it is in the pool once, behind every entry that was there.
C20_RequeuedAtTheEnd ==
    (/\ program = "part_000"
     /\ last.ev = "find:partner"
     /\ WaitingHas(poolBefore, last.id)
     /\ last.id \notin DOMAIN peers)
    => waiting = Append(WaitingDelete(poolBefore, last.id),
                        [id |-> last.id, tags |-> normalizeTags(last.arg), at |-> now])

\* The first of two waiting participants has asked again, found nobody, and
\* now stands behind the other.
C20_Witness ==
    /\ program = "part_000"
    /\ last.ev = "find:partner"
    /\ Len(poolBefore) = 2
    /\ poolBefore[1].id = last.id
    /\ Len(waiting) = 2
    /\ waiting[1] = poolBefore[2]
    /\ waiting[2].id = last.id

====
